---- MODULE Spec2Model ----
(***************************************************************************)
(* Model of the trading simulator: the core                                *)
(* (src/src/simulator/simulation.py: simulate_exponential_growth and       *)
(* simulate_baseline_harvest_engine), the date functions and the           *)
(* interactive main of src/src/simulator/main.py, and the engine of        *)
(* src/src/options_simulator/simulation.py.                                *)
(*                                                                         *)
(* Spec       one call of a simulator                                      *)
(* SpecCalls  several calls, one after the other, in one process           *)
(* SpecMonday one call of get_start_monday or get_previous_mondays_of_year *)
(* SpecMain   runs of main, one after the other, sharing the saved record  *)
(*                                                                         *)
(* Amounts, rates and percentages are exact numbers (see below).  The      *)
(* Python code computes in double precision: the rounding of a double is   *)
(* not modelled, its finite range is where the code depends on it.         *)
(***************************************************************************)
EXTENDS Integers, Sequences, FiniteSets

VARIABLES
    fn,                  \* the function that runs: "harvest", "exp",
                         \* "get_start_monday", "get_previous_mondays_of_year"
                         \* or "main"
    pc,                  \* "loop" while the for loop runs, "done" after
                         \* return, "raised" after an exception left the
                         \* call; in main the prompt or step that is next,
                         \* "exit" after an early return, or the name of
                         \* the exception that ended the run
    initial_pot, weekly_return_rate, engine_cap, total_weeks,
    initial_vault, growth_vault_pct, harvest_vault_pct,
    pot, vault, spend, history, in_harvest_phase,
    week,                \* next value of the loop variable of the for loop
    P, r, periods,       \* arguments of simulate_exponential_growth
    amounts,
    n,                   \* next value of the loop variable n
    result,              \* the returned list (<<>> until pc = "done")
    returned,            \* what the calls made so far gave their caller
    now,                 \* the clock's reading, for get_start_monday
    simulation_type,     \* main: "exponential" or "baseline" ("" while unset)
    start_date,          \* main: the first date of the report
    skip_input,          \* main: TRUE in a re-do run
    entry,               \* main: the line last read from the terminal
    txt_file,            \* main: simulation.txt of this run
    last_params_file     \* last_simulation_params.json: <<>> while it does
                         \* not exist, else <<the saved record>>

vars == <<fn, pc, initial_pot, weekly_return_rate, engine_cap, total_weeks,
          initial_vault, growth_vault_pct, harvest_vault_pct,
          pot, vault, spend, history, in_harvest_phase, week,
          P, r, periods, amounts, n, result, returned, now,
          simulation_type, start_date, skip_input, entry, txt_file,
          last_params_file>>

harvestArgs == <<initial_pot, weekly_return_rate, engine_cap, total_weeks,
                 initial_vault, growth_vault_pct, harvest_vault_pct>>

harvestLocals == <<pot, vault, spend, history, in_harvest_phase, week>>

expArgs == <<P, r, periods>>

expLocals == <<amounts, n>>

mainLocals == <<simulation_type, start_date, skip_input, entry, txt_file>>

mainState == <<mainLocals, last_params_file>>

----------------------------------------------------------------------------
(* Exact arithmetic.  A number is <<n, d, e>>, the value (n / d) * 2^e    *)
(* with n and d odd and coprime, d > 0 (zero is <<0, 1, 0>>), so that      *)
(* equal values are equal tuples and the binary exponent of a value, on    *)
(* which the range of a double depends, is at hand.                        *)

Abs(x) == IF x < 0 THEN -x ELSE x

Min(a, b) == IF a < b THEN a ELSE b

RECURSIVE GCD(_, _)
GCD(a, b) == IF b = 0 THEN a ELSE GCD(b, a % b)

\* the number of factors 2 of m > 0
RECURSIVE V2(_)
V2(m) == IF m % 2 = 0 THEN 1 + V2(m \div 2) ELSE 0

RECURSIVE Pow2(_)
Pow2(k) == IF k = 0 THEN 1 ELSE 2 * Pow2(k - 1)

\* (num / den) * 2^e in normal form
Scaled(num, den, e) ==
    IF num = 0 THEN <<0, 1, 0>>
    ELSE LET g == GCD(Abs(num), den)
             n1 == num \div g
             d1 == den \div g
             a == V2(Abs(n1))
             b == V2(d1)
         IN  <<n1 \div Pow2(a), d1 \div Pow2(b), e + a - b>>

Rat(num, den) == Scaled(num, den, 0)

Zero == Rat(0, 1)

One == Rat(1, 1)

Neg(x) == <<-x[1], x[2], x[3]>>

Add(x, y) ==
    IF x[1] = 0 THEN y
    ELSE IF y[1] = 0 THEN x
    ELSE LET m == Min(x[3], y[3])
         IN  Scaled(x[1] * Pow2(x[3] - m) * y[2] + y[1] * Pow2(y[3] - m) * x[2],
                    x[2] * y[2], m)

Sub(x, y) == Add(x, Neg(y))

Mul(x, y) == Scaled(x[1] * y[1], x[2] * y[2], x[3] + y[3])

Lt(x, y) == Sub(x, y)[1] < 0

Le(x, y) == Sub(x, y)[1] <= 0

Gt(x, y) == Lt(y, x)

RECURSIVE Pow(_, _)
Pow(x, k) ==
    IF k = 0 THEN One
    ELSE IF k % 2 = 0 THEN LET h == Pow(x, k \div 2) IN Mul(h, h)
    ELSE Mul(x, Pow(x, k - 1))

\* floor(log2(num / den)) for num, den > 0
RECURSIVE FloorLog2(_, _)
FloorLog2(num, den) ==
    IF num < den THEN FloorLog2(2 * num, den) - 1
    ELSE IF num >= 2 * den THEN FloorLog2(num, 2 * den) + 1
    ELSE 0

\* a double holds magnitudes below 2^1024
DblMaxExp == 1024

\* x ** k on doubles raises OverflowError when the magnitude of the result
\* is not below 2^1024 (results that round up to 2^1024 are not modelled)
FloatPowOverflows(x, k) ==
    LET v == Pow(x, k)
    IN  v[1] # 0 /\ v[3] + FloorLog2(Abs(v[1]), v[2]) >= DblMaxExp

----------------------------------------------------------------------------
(* Bounds and the argument values the calls are made with.                 *)

MaxWeeks == 4

MaxPeriods == 4

Rates == {Rat(-3, 1), Rat(-1, 1), Rat(-1, 2), Zero, Rat(1, 2), One}

Pots == {Zero, One, Rat(3, 1), Rat(5, 1)}

Caps == {Zero, Rat(2, 1), Rat(4, 1)}

Vaults == {Zero, One}

Pcts == {Rat(0, 1), Rat(25, 1), Rat(50, 1), Rat(100, 1), Rat(150, 1)}

Principals == {Zero, One, Rat(3, 1), Rat(1000, 1)}

ExpRates == Rates \cup {Rat(1, 4), Rat(1, 5)}

\* runs that leave the range of a double: with the rate 2^30 - 1 the amount
\* grows by the factor 2^30 every period and P * 2^1050 is due in period 35
\* (the rate 1.0 does the same in period 1024, the default 0.25 in 3181)
LongPeriods == 35

LongRunRate == Rat(1073741823, 1)

Arguments(p, rate, cap, v, growth_pct, harvest_pct) ==
    [pot |-> p, rate |-> rate, cap |-> cap, vault |-> v,
     growth |-> growth_pct, harvest |-> harvest_pct]

DefaultGrowthPct == Rat(50, 1)

DefaultHarvestPct == Rat(25, 1)

\* the calls of TestSimulateBaselineHarvestEngine (their week counts are
\* drawn from 0 .. MaxWeeks like every other call's)
Scenarios ==
    { Arguments(Rat(1000, 1), Rat(1, 10), Rat(10000, 1), Zero,
                DefaultGrowthPct, DefaultHarvestPct),
      Arguments(Rat(9000, 1), Rat(1, 5), Rat(10000, 1), Rat(100, 1),
                DefaultGrowthPct, DefaultHarvestPct),
      Arguments(Rat(9000, 1), Rat(1, 20), Rat(10000, 1), Zero,
                DefaultGrowthPct, DefaultHarvestPct),
      Arguments(Rat(500, 1), Rat(1, 10), Rat(1000, 1), Rat(50, 1),
                DefaultGrowthPct, DefaultHarvestPct),
      Arguments(Rat(5000, 1), One, Rat(6000, 1), Zero,
                DefaultGrowthPct, DefaultHarvestPct) }

HarvestInputs ==
    { Arguments(p, rate, cap, v, g, h) :
        p \in Pots, rate \in Rates, cap \in Caps, v \in Vaults,
        g \in Pcts, h \in Pcts }
    \cup Scenarios

----------------------------------------------------------------------------
(* What a caller sees of a call, and the clock.                            *)

CallRecord(f, args, how, res) ==
    [fn |-> f, args |-> args, outcome |-> how, result |-> res]

\* a datetime: the day's proleptic Gregorian ordinal (day 1 is Monday
\* 0001-01-01) and the second of the day
DateTime(d, sec) == [day |-> d, second |-> sec]

Epoch == DateTime(1, 0)

\* the variables of main while no main is running
NotInMain ==
    /\ simulation_type = ""
    /\ start_date = Epoch
    /\ skip_input = FALSE
    /\ entry = ""
    /\ txt_file = "absent"
    /\ last_params_file = <<>>

----------------------------------------------------------------------------
(* simulate_baseline_harvest_engine                                        *)

\* variant: the profit is taken on the initial pot every week
Profit_OnInitialPot(p, rate) == Mul(initial_pot, rate)

\* variant: the profit is the whole grown pot, pot * (1 + rate)
Profit_OnePlusRate(p, rate) == Mul(p, Add(One, rate))

Profit(p, rate) == Mul(p, rate)

\* variant: pot = profit instead of pot += profit
PotWithProfit_ProfitOnly(p, rate) == Profit(p, rate)

PotWithProfit(p, rate) == Add(p, Profit(p, rate))

Excess(p, cap) == Sub(p, cap)

\* variant: the excess is withdrawn without testing its sign
Withdrawal_NoDeficitCheck(p, cap) == Excess(p, cap)

\* withdrawal = 0.0, replaced by the excess when the pot is not below the
\* cap and the excess is positive
Withdrawal(p, cap) ==
    IF Lt(p, cap) THEN Zero
    ELSE IF Gt(Excess(p, cap), Zero) THEN Excess(p, cap) ELSE Zero

\* variant: the two percentages are swapped between the phases
VaultAllocation_HarvestFirst(flag, growth_pct, harvest_pct) ==
    IF ~flag THEN Mul(harvest_pct, Rat(1, 100))
    ELSE Mul(growth_pct, Rat(1, 100))

\* variant: the percentage is used as a fraction, without dividing by 100
VaultAllocation_NoDivide(flag, growth_pct, harvest_pct) ==
    IF ~flag THEN growth_pct ELSE harvest_pct

\* the allocation fraction of a week that withdraws
VaultAllocation(flag, growth_pct, harvest_pct) ==
    IF ~flag THEN Mul(growth_pct, Rat(1, 100))
    ELSE Mul(harvest_pct, Rat(1, 100))

\* variant: a week below the cap leaves the flag as it is
PhaseAfter_NoReset(flag, p, cap) ==
    IF Lt(p, cap) THEN flag
    ELSE IF Gt(Excess(p, cap), Zero) THEN TRUE ELSE flag

\* variant: the flag is never set
PhaseAfter_NeverHarvest(flag, p, cap) == FALSE

\* variant: reaching the cap sets the flag, with or without an excess
PhaseAfter_SetAtCap(flag, p, cap) == ~Lt(p, cap)

\* in_harvest_phase after the week, p being the pot with the profit added
PhaseAfter(flag, p, cap) ==
    IF Lt(p, cap) THEN FALSE
    ELSE IF Gt(Excess(p, cap), Zero) THEN TRUE ELSE flag

\* variant: vault = instead of vault +=
VaultAfter_Overwrites(v, w, a) == Mul(w, a)

VaultAfter(v, w, a) == Add(v, Mul(w, a))

\* variant: spend receives the vault's fraction
SpendAfter_SameFraction(s, w, a) == Add(s, Mul(w, a))

\* variant: spend receives the whole withdrawal
SpendAfter_WholeWithdrawal(s, w, a) == Add(s, w)

SpendAfter(s, w, a) == Add(s, Mul(w, Sub(One, a)))

\* variant: the pot is not locked at the cap after a withdrawal
PotAfter_NoClamp(p, cap) == p

\* variant: a shrinking pot is floored at zero
PotAfter_FloorZero(p, cap) ==
    IF Gt(Withdrawal(p, cap), Zero) THEN cap
    ELSE IF Lt(p, Zero) THEN Zero ELSE p

PotAfter(p, cap) ==
    IF Gt(Withdrawal(p, cap), Zero) THEN cap ELSE p

\* variant: range(1, total_weeks)
WeekRange_OffByOne(weeks) == 1 .. (weeks - 1)

WeekRange(weeks) == 1 .. weeks

WeekRecord(wk, p, v, s, pr, w) ==
    [week |-> wk, pot |-> p, vault |-> v, spend |-> s,
     profit |-> pr, withdrawal |-> w]

InitHarvest ==
    /\ fn = "harvest"
    /\ pc = "loop"
    /\ \E a \in HarvestInputs :
          /\ initial_pot = a.pot
          /\ weekly_return_rate = a.rate
          /\ engine_cap = a.cap
          /\ initial_vault = a.vault
          /\ growth_vault_pct = a.growth
          /\ harvest_vault_pct = a.harvest
    /\ total_weeks \in 0 .. MaxWeeks
    /\ pot = initial_pot
    /\ vault = initial_vault
    /\ spend = Zero
    /\ history = <<>>
    /\ in_harvest_phase = FALSE
    /\ week = 1
    /\ P = Zero /\ r = Zero /\ periods = 0 /\ amounts = <<>> /\ n = 1
    /\ result = <<>>
    /\ returned = <<>>
    /\ now = Epoch
    /\ NotInMain

\* one iteration of the for loop
HarvestWeek ==
    /\ fn = "harvest"
    /\ pc = "loop"
    /\ week \in WeekRange(total_weeks)
    /\ LET profit == Profit(pot, weekly_return_rate)
           p == PotWithProfit(pot, weekly_return_rate)
           withdrawal == Withdrawal(p, engine_cap)
           a == VaultAllocation(in_harvest_phase, growth_vault_pct,
                                harvest_vault_pct)
           takes == Gt(withdrawal, Zero)
           v == IF takes THEN VaultAfter(vault, withdrawal, a) ELSE vault
           s == IF takes THEN SpendAfter(spend, withdrawal, a) ELSE spend
       IN  /\ pot' = PotAfter(p, engine_cap)
           /\ vault' = v
           /\ spend' = s
           /\ in_harvest_phase' = PhaseAfter(in_harvest_phase, p, engine_cap)
           /\ history' = Append(history,
                  WeekRecord(week, PotAfter(p, engine_cap), v, s, profit,
                             withdrawal))
    /\ week' = week + 1
    /\ UNCHANGED <<fn, pc, harvestArgs, expArgs, expLocals, result, returned,
                   now,
                   mainState>>

\* the range is exhausted: return history
HarvestReturn ==
    /\ fn = "harvest"
    /\ pc = "loop"
    /\ week \notin WeekRange(total_weeks)
    /\ pc' = "done"
    /\ result' = history
    /\ returned' = Append(returned,
                          CallRecord(fn, harvestArgs, "returned", history))
    /\ UNCHANGED <<fn, harvestArgs, harvestLocals, expArgs, expLocals, now,
                   mainState>>

----------------------------------------------------------------------------
(* simulate_exponential_growth                                             *)

PeriodRange(k) == 1 .. k

\* variant: simple interest, P * (1 + r * n)
Amount_SimpleInterest(principal, rate, k) ==
    Mul(principal, Add(One, Mul(rate, Rat(k, 1))))

\* variant: P * (1 + r) * n
Amount_LinearInPeriods(principal, rate, k) ==
    Mul(Mul(principal, Add(One, rate)), Rat(k, 1))

Amount(principal, rate, k) == Mul(principal, Pow(Add(One, rate), k))

InitExp ==
    /\ fn = "exp"
    /\ pc = "loop"
    /\ \/ /\ P \in Principals
          /\ r \in ExpRates
          /\ periods \in 0 .. MaxPeriods
       \/ /\ P \in {Zero, One}
          /\ r = LongRunRate
          /\ periods \in {LongPeriods - 1, LongPeriods}
    /\ amounts = <<P>>
    /\ n = 1
    /\ initial_pot = Zero /\ weekly_return_rate = Zero /\ engine_cap = Zero
    /\ total_weeks = 0 /\ initial_vault = Zero
    /\ growth_vault_pct = Zero /\ harvest_vault_pct = Zero
    /\ pot = Zero /\ vault = Zero /\ spend = Zero /\ history = <<>>
    /\ in_harvest_phase = FALSE /\ week = 1
    /\ result = <<>>
    /\ returned = <<>>
    /\ now = Epoch
    /\ NotInMain

ExpPeriod ==
    /\ fn = "exp"
    /\ pc = "loop"
    /\ n \in PeriodRange(periods)
    /\ ~FloatPowOverflows(Add(One, r), n)
    /\ amounts' = Append(amounts, Amount(P, r, n))
    /\ n' = n + 1
    /\ UNCHANGED <<fn, pc, harvestArgs, harvestLocals, expArgs, result,
                   returned, now,
                   mainState>>

\* (1 + r) ** n raises OverflowError, which leaves the function: nothing
\* is returned
ExpRaise ==
    /\ fn = "exp"
    /\ pc = "loop"
    /\ n \in PeriodRange(periods)
    /\ FloatPowOverflows(Add(One, r), n)
    /\ pc' = "raised"
    /\ returned' = Append(returned,
                          CallRecord(fn, expArgs, "OverflowError", <<>>))
    /\ UNCHANGED <<fn, harvestArgs, harvestLocals, expArgs, expLocals, result,
                   now,
                   mainState>>

ExpReturn ==
    /\ fn = "exp"
    /\ pc = "loop"
    /\ n \notin PeriodRange(periods)
    /\ pc' = "done"
    /\ result' = amounts
    /\ returned' = Append(returned,
                          CallRecord(fn, expArgs, "returned", amounts))
    /\ UNCHANGED <<fn, harvestArgs, harvestLocals, expArgs, expLocals, now,
                   mainState>>

----------------------------------------------------------------------------

Init == InitHarvest \/ InitExp

Next == HarvestWeek \/ HarvestReturn \/ ExpPeriod \/ ExpRaise \/ ExpReturn

Spec == Init /\ [][Next]_vars

----------------------------------------------------------------------------
(* A process that calls the simulators several times, one call after the   *)
(* other.  Every call binds its parameters and creates its locals anew.    *)

MaxCalls == 3

MaxCallWeeks == 2

CallInputs ==
    { Arguments(Rat(5, 1), rate, Rat(2, 1), Zero,
                DefaultGrowthPct, DefaultHarvestPct) :
        rate \in {Rat(-1, 2), One} }

CallExpInputs ==
    { <<One, Rat(1, 2), k>> : k \in 0 .. MaxCallWeeks }
    \cup { <<One, LongRunRate, LongPeriods>> }

FreshSpend == Zero

\* variant: history is a list shared by all calls (a mutable default)
FreshHistory_Shared == history

FreshHistory == <<>>

FreshPhase == FALSE

FreshAmounts(principal) == <<principal>>

CallHarvest ==
    /\ pc \in {"done", "raised"}
    /\ Len(returned) < MaxCalls
    /\ \E a \in CallInputs, w \in 0 .. MaxCallWeeks :
          /\ initial_pot' = a.pot
          /\ weekly_return_rate' = a.rate
          /\ engine_cap' = a.cap
          /\ total_weeks' = w
          /\ initial_vault' = a.vault
          /\ growth_vault_pct' = a.growth
          /\ harvest_vault_pct' = a.harvest
          /\ pot' = a.pot
          /\ vault' = a.vault
    /\ fn' = "harvest"
    /\ pc' = "loop"
    /\ spend' = FreshSpend
    /\ history' = FreshHistory
    /\ in_harvest_phase' = FreshPhase
    /\ week' = 1
    /\ P' = Zero /\ r' = Zero /\ periods' = 0 /\ amounts' = <<>> /\ n' = 1
    /\ result' = <<>>
    /\ UNCHANGED <<returned, now,
                   mainState>>

CallExp ==
    /\ pc \in {"done", "raised"}
    /\ Len(returned) < MaxCalls
    /\ \E a \in CallExpInputs :
          /\ P' = a[1]
          /\ r' = a[2]
          /\ periods' = a[3]
          /\ amounts' = FreshAmounts(a[1])
    /\ fn' = "exp"
    /\ pc' = "loop"
    /\ n' = 1
    /\ initial_pot' = Zero /\ weekly_return_rate' = Zero /\ engine_cap' = Zero
    /\ total_weeks' = 0 /\ initial_vault' = Zero
    /\ growth_vault_pct' = Zero /\ harvest_vault_pct' = Zero
    /\ pot' = Zero /\ vault' = Zero /\ spend' = Zero /\ history' = <<>>
    /\ in_harvest_phase' = FALSE /\ week' = 1
    /\ result' = <<>>
    /\ UNCHANGED <<returned, now,
                   mainState>>

InitCalls ==
    /\ Init
    /\ \/ /\ fn = "harvest"
          /\ Arguments(initial_pot, weekly_return_rate, engine_cap,
                       initial_vault, growth_vault_pct, harvest_vault_pct)
                 \in CallInputs
          /\ total_weeks <= MaxCallWeeks
       \/ /\ fn = "exp"
          /\ <<P, r, periods>> \in CallExpInputs

NextCalls ==
    \/ HarvestWeek \/ HarvestReturn
    \/ ExpPeriod \/ ExpRaise \/ ExpReturn
    \/ CallHarvest \/ CallExp

SpecCalls == InitCalls /\ [][NextCalls]_vars

----------------------------------------------------------------------------
(* get_start_monday (main.py).  A date is its proleptic Gregorian ordinal: *)
(* day 1 is 0001-01-01, a Monday, and the last date is 9999-12-31.  Date   *)
(* arithmetic outside that range raises OverflowError.                     *)

MinOrdinal == 1

MaxOrdinal == 3652059

DayWindow == 21

\* the week of the tests: Monday 2026-01-05 to Sunday 2026-01-11
TestMonday == 739621

TestDays == TestMonday .. TestMonday + 6

\* Tuesday 2024-12-31, the last day of a leap year with 53 Mondays
LeapYearEnd == 739251

\* Thursday 2026-01-01, four days before the year's first Monday
NewYear2026 == 739617

YearTurnDays ==
    (LeapYearEnd - 3 .. LeapYearEnd + 6) \cup (NewYear2026 .. NewYear2026 + 3)

Days ==
    (MinOrdinal .. MinOrdinal + DayWindow - 1)
    \cup (MaxOrdinal - DayWindow + 1 .. MaxOrdinal)
    \cup TestDays
    \cup YearTurnDays

MinTime == 0

TimesOfDay == {MinTime, 1, 43200, 86399}

Date(dt) == dt.day

Weekday(d) == (d + 6) % 7

\* variant: only Sunday counts as the weekend
IsWeekend_SundayOnly(weekday) == weekday >= 6

IsWeekend(weekday) == weekday >= 5

\* variant: one day short of the next Monday
DaysUntilMonday_Six(weekday) == 6 - weekday

DaysUntilMonday(weekday) == 7 - weekday

DaysSinceMonday(weekday) == weekday

InDateRange(d) == d >= MinOrdinal /\ d <= MaxOrdinal

Combine(d, t) == DateTime(d, t)

StartMonday(today) ==
    LET weekday == Weekday(today)
    IN  IF IsWeekend(weekday)
          THEN today + DaysUntilMonday(weekday)
          ELSE today - DaysSinceMonday(weekday)

InitMonday ==
    /\ fn \in {"get_start_monday", "get_previous_mondays_of_year"}
    /\ pc = "call"
    /\ \E d \in Days, t \in TimesOfDay : now = DateTime(d, t)
    /\ initial_pot = Zero /\ weekly_return_rate = Zero /\ engine_cap = Zero
    /\ total_weeks = 0 /\ initial_vault = Zero
    /\ growth_vault_pct = Zero /\ harvest_vault_pct = Zero
    /\ pot = Zero /\ vault = Zero /\ spend = Zero /\ history = <<>>
    /\ in_harvest_phase = FALSE /\ week = 1
    /\ P = Zero /\ r = Zero /\ periods = 0 /\ amounts = <<>> /\ n = 1
    /\ result = <<>>
    /\ returned = <<>>
    /\ NotInMain

GetStartMonday ==
    /\ fn = "get_start_monday"
    /\ pc = "call"
    /\ LET today == Date(now)
           monday == StartMonday(today)
       IN  IF InDateRange(monday)
             THEN /\ result' = Combine(monday, MinTime)
                  /\ pc' = "done"
                  /\ returned' = Append(returned,
                        CallRecord(fn, <<>>, "returned", Combine(monday, MinTime)))
             ELSE /\ result' = <<>>
                  /\ pc' = "raised"
                  /\ returned' = Append(returned,
                        CallRecord(fn, <<>>, "OverflowError", <<>>))
    /\ UNCHANGED <<fn, now, harvestArgs, harvestLocals, expArgs, expLocals,
                   mainState>>

(* The calendar of datetime.date: year, month and day of an ordinal and    *)
(* back, as date.fromordinal and date.toordinal compute them.              *)

IsLeap(y) == y % 4 = 0 /\ (y % 100 # 0 \/ y % 400 = 0)

DaysBeforeYear(y) ==
    LET p == y - 1 IN p * 365 + p \div 4 - p \div 100 + p \div 400

DaysBeforeMonthTable == <<0, 31, 59, 90, 120, 151, 181, 212, 243, 273, 304, 334, 365>>

\* days of year y before month m; m = 13 gives the length of the year
DaysBeforeMonth(y, m) ==
    DaysBeforeMonthTable[m] + (IF m > 2 /\ IsLeap(y) THEN 1 ELSE 0)

Ymd2Ord(y, m, d) == DaysBeforeYear(y) + DaysBeforeMonth(y, m) + d

YearOf(ordinal) ==
    LET n0 == ordinal - 1
        n400 == n0 \div 146097
        r400 == n0 % 146097
        n100 == r400 \div 36524
        r100 == r400 % 36524
        n4 == r100 \div 1461
        r4 == r100 % 1461
        n1 == r4 \div 365
        y == n400 * 400 + n100 * 100 + n4 * 4 + n1 + 1
    IN  IF n1 = 4 \/ n100 = 4 THEN y - 1 ELSE y

MonthOf(ordinal) ==
    LET y == YearOf(ordinal)
        doy == ordinal - DaysBeforeYear(y)
    IN  CHOOSE m \in 1 .. 12 :
            DaysBeforeMonth(y, m) < doy /\ doy <= DaysBeforeMonth(y, m + 1)

DayOf(ordinal) ==
    LET y == YearOf(ordinal)
    IN  ordinal - DaysBeforeYear(y) - DaysBeforeMonth(y, MonthOf(ordinal))

(* get_previous_mondays_of_year (main.py)                                  *)

JanFirst(today) == Ymd2Ord(YearOf(today), 1, 1)

DaysUntilFirstMonday(jan_first) == (7 - Weekday(jan_first)) % 7

FirstMonday(jan_first) ==
    IF Weekday(jan_first) = 0
      THEN jan_first
      ELSE jan_first + DaysUntilFirstMonday(jan_first)

\* variant: while current_monday < today
StillDue_Strict(current_monday, today) == current_monday < today

\* the loop's condition
StillDue(current_monday, today) == current_monday <= today

\* the while loop: the Mondays collected so far are in mondays; stepping
\* current_monday past the last date raises OverflowError
RECURSIVE CollectMondays(_, _, _)
CollectMondays(current_monday, today, mondays) ==
    IF ~StillDue(current_monday, today)
      THEN [outcome |-> "returned", mondays |-> mondays]
      ELSE IF ~InDateRange(current_monday + 7)
        THEN [outcome |-> "OverflowError", mondays |-> <<>>]
        ELSE CollectMondays(current_monday + 7, today,
                            Append(mondays, Combine(current_monday, MinTime)))

PreviousMondays(today) ==
    CollectMondays(FirstMonday(JanFirst(today)), today, <<>>)

GetPreviousMondays ==
    /\ fn = "get_previous_mondays_of_year"
    /\ pc = "call"
    /\ LET call == PreviousMondays(Date(now))
       IN  /\ result' = call.mondays
           /\ pc' = IF call.outcome = "returned" THEN "done" ELSE "raised"
           /\ returned' = Append(returned,
                 CallRecord(fn, <<>>, call.outcome, call.mondays))
    /\ UNCHANGED <<fn, now, harvestArgs, harvestLocals, expArgs, expLocals,
                   mainState>>

NextMonday == GetStartMonday \/ GetPreviousMondays

SpecMonday == InitMonday /\ [][NextMonday]_vars

----------------------------------------------------------------------------
(* simulate_10K_baseline_harvest_engine (options_simulator/simulation.py): *)
(* the engine without percentages and without a phase flag.  TenKRun(k) is *)
(* its state after k iterations of the loop, called with the first five    *)
(* arguments of the harvest run.                                           *)

TenKHalf == Rat(1, 2)

\* variant: a quarter of the withdrawal goes to the vault
TenKVaultAfter_Quarter(v, w) == Add(v, Mul(w, Rat(1, 4)))

TenKVaultAfter(v, w) == Add(v, Mul(w, TenKHalf))

TenKSpendAfter(sp, w) == Add(sp, Mul(w, TenKHalf))

RECURSIVE TenKRun(_)
TenKRun(k) ==
    IF k = 0
      THEN [pot |-> initial_pot, vault |-> initial_vault, spend |-> Zero,
            history |-> <<>>]
      ELSE LET s == TenKRun(k - 1)
               profit == Mul(s.pot, weekly_return_rate)
               p == Add(s.pot, profit)
               excess == Sub(p, engine_cap)
               takes == ~Lt(p, engine_cap) /\ Gt(excess, Zero)
               withdrawal == IF takes THEN excess ELSE Zero
               v == IF takes THEN TenKVaultAfter(s.vault, withdrawal)
                             ELSE s.vault
               sp == IF takes THEN TenKSpendAfter(s.spend, withdrawal)
                              ELSE s.spend
               q == IF takes THEN engine_cap ELSE p
           IN  [pot |-> q, vault |-> v, spend |-> sp,
                history |-> Append(s.history,
                    [week |-> k, pot |-> q, vault |-> v, spend |-> sp,
                     profit |-> profit, withdrawal |-> withdrawal])]

TenKResult == TenKRun(IF total_weeks > 0 THEN total_weeks ELSE 0).history

----------------------------------------------------------------------------
(* main (main.py): one run of the program is one process; between runs     *)
(* only last_simulation_params.json remains.  A line typed at a prompt is  *)
(* a string; float() and int() are modelled on the strings that occur.     *)

FloatTexts == {"-5", "-1", "0", "1", "2", "2.5", "100", "150", "1024"}

IntTexts == FloatTexts \ {"2.5"}

IntValue(t) ==
    CASE t = "-5" -> -5
      [] t = "-1" -> -1
      [] t = "0" -> 0
      [] t = "1" -> 1
      [] t = "2" -> 2
      [] t = "2.5" -> 2
      [] t = "100" -> 100
      [] t = "150" -> 150
      [] t = "1024" -> 1024

\* variant: int() truncates a decimal instead of raising ValueError
ParseInt_Truncating(t) ==
    IF t \in FloatTexts
      THEN [ok |-> TRUE, value |-> IntValue(t)]
      ELSE [ok |-> FALSE, value |-> 0]

\* int(t): ok is FALSE where the code gets a ValueError
ParseInt(t) ==
    IF t \in IntTexts
      THEN [ok |-> TRUE, value |-> IntValue(t)]
      ELSE [ok |-> FALSE, value |-> 0]

\* float(t)
ParseFloat(t) ==
    IF t \in FloatTexts
      THEN [ok |-> TRUE,
            value |-> IF t = "2.5" THEN Rat(5, 2) ELSE Rat(IntValue(t), 1)]
      ELSE [ok |-> FALSE, value |-> Zero]

MenuEntries == {"", "1", "2", "3", "4", "5", "abc"}

DateEntries == {"", "1", "2", "3"}

SelectionEntries == {"", "1", "2", "n", "abc"}

PrincipalEntries == {"", "abc", "-5"}

RateEntries == {"", "abc", "100"}

PeriodsEntries == {"", "2.5", "-1", "1024"}

CapEntries == {"", "abc", "0"}

WeeksEntries == {"", "2.5", "0", "2"}

VaultEntries == {"", "abc", "-1"}

GrowthEntries == {"", "abc", "150", "100"}

HarvestEntries == {"", "abc", "-5", "0"}

default_principal == Rat(1000, 1)

default_rate_pct == Rat(25, 1)

default_weeks == 52

default_cap == Rat(10000, 1)

default_vault == Rat(300, 1)

default_growth_pct == Rat(50, 1)

default_harvest_pct == Rat(25, 1)

\* weekly_return_rate = 0.25 of a baseline run
BaselineRate == Rat(1, 4)

\* the moments at which the modelled runs start: noon of Thursday
\* 2026-01-01 and of Saturday 2026-01-10
MainNows == { DateTime(d, 43200) : d \in {NewYear2026, TestMonday + 5} }

\* variant: only the lower bound is checked
PctInRange_NoUpper(x) == Le(Zero, x)

\* 0 <= pct <= 100
PctInRange(x) == Le(Zero, x) /\ Le(x, Rat(100, 1))

\* strftime('%Y-%m-%d')
Strftime(dt) == <<YearOf(dt.day), MonthOf(dt.day), DayOf(dt.day)>>

\* strptime(text, '%Y-%m-%d')
Strptime(text) == DateTime(Ymd2Ord(text[1], text[2], text[3]), 0)

\* variant: the rate is saved as a percentage
ParamsToSave_RateAsPercent(type, p, rate, weeks, start, cap, v, g, h) ==
    IF type = "baseline"
      THEN [simulation_type |-> type, initial_pot |-> p,
            weekly_return_rate |-> Mul(rate, Rat(100, 1)),
            total_weeks |-> weeks, start_date |-> Strftime(start),
            engine_cap |-> cap, initial_vault |-> v,
            growth_vault_pct |-> g, harvest_vault_pct |-> h]
      ELSE [simulation_type |-> type, initial_pot |-> p,
            weekly_return_rate |-> Mul(rate, Rat(100, 1)),
            total_weeks |-> weeks, start_date |-> Strftime(start)]

\* the dict params that main saves
ParamsToSave(type, p, rate, weeks, start, cap, v, g, h) ==
    IF type = "baseline"
      THEN [simulation_type |-> type, initial_pot |-> p,
            weekly_return_rate |-> rate,
            total_weeks |-> weeks, start_date |-> Strftime(start),
            engine_cap |-> cap, initial_vault |-> v,
            growth_vault_pct |-> g, harvest_vault_pct |-> h]
      ELSE [simulation_type |-> type, initial_pot |-> p,
            weekly_return_rate |-> rate,
            total_weeks |-> weeks, start_date |-> Strftime(start)]

\* json.dump into the file and json.load from it: numbers and strings are
\* read back as they were written
JsonDump(params) == <<params>>

JsonLoad(file) == file[1]

\* the keys whose absence makes the re-do branch end with a KeyError
RedoKeys(params) ==
    {"simulation_type", "initial_pot", "weekly_return_rate", "total_weeks"}
    \cup (IF "simulation_type" \in DOMAIN params
             /\ params.simulation_type = "baseline"
            THEN {"engine_cap", "initial_vault", "growth_vault_pct",
                  "harvest_vault_pct"}
            ELSE {})

\* x^k stays below 2^1024 because x^4 is below 2^c and c * ceil(k/4) < 1024
PowStaysFinite(x, k) ==
    LET v == Pow(x, 4)
    IN  \/ v[1] = 0
        \/ (v[3] + FloorLog2(Abs(v[1]), v[2]) + 1) * ((k + 3) \div 4)
              < DblMaxExp

\* simulate_exponential_growth(P, rate, k) raises: the powers of 1 + rate
\* grow in magnitude, so the last one decides
ExpCallRaises(rate, k) ==
    /\ k >= 1
    /\ ~PowStaysFinite(Add(One, rate), k)
    /\ FloatPowOverflows(Add(One, rate), k)

\* the history as main uses it: main reads the numbers of a record only to
\* print them, so a record is reduced to its week
BaselineWeeks(weeks) == [k \in WeekRange(weeks) |-> [week |-> k]]

\* [{'week': i, 'amount': amount} for i, amount in enumerate(amounts)]
EnumeratedAmounts(k) ==
    [i \in 1 .. (Len([j \in PeriodRange(k) |-> j]) + 1) |-> [week |-> i - 1]]

\* start_date + timedelta(weeks=i) for i in range(len(history)) overflows
DatesOverflow(start, len) ==
    len >= 1 /\ ~InDateRange(start.day + 7 * (len - 1))

simLocals == <<pot, vault, spend, in_harvest_phase, week, P, r, periods,
               amounts, n>>

Reversed(seq) == [i \in 1 .. Len(seq) |-> seq[Len(seq) + 1 - i]]

page_size == 10

TotalPages(len) == (len + page_size - 1) \div page_size

MainEnded == pc \in {"done", "exit", "IndexError", "OverflowError"}

InitMain ==
    /\ fn = "main"
    /\ pc = "menu"
    /\ now \in MainNows
    /\ initial_pot = Zero /\ weekly_return_rate = Zero /\ engine_cap = Zero
    /\ total_weeks = 0 /\ initial_vault = Zero
    /\ growth_vault_pct = Zero /\ harvest_vault_pct = Zero
    /\ pot = Zero /\ vault = Zero /\ spend = Zero /\ history = <<>>
    /\ in_harvest_phase = FALSE /\ week = 1
    /\ P = Zero /\ r = Zero /\ periods = 0 /\ amounts = <<>> /\ n = 1
    /\ result = <<>>
    /\ returned = <<>>
    /\ NotInMain

\* the menu; option 3 loads the saved record and goes on to the simulation,
\* options 1 and 2 enter select_start_date, which first calls
\* get_previous_mondays_of_year and get_start_monday
MainMenu ==
    /\ fn = "main"
    /\ pc = "menu"
    /\ \E t \in MenuEntries :
          LET sim_choice == IF t = "" THEN "2" ELSE t
              valid == sim_choice \in {"1", "2", "3", "4"}
              redo == sim_choice = "3"
              params == JsonLoad(last_params_file)
              loaded == /\ redo
                        /\ last_params_file # <<>>
                        /\ RedoKeys(params) \subseteq DOMAIN params
              interactive == sim_choice \in {"1", "2"}
              today == Date(now)
              datesOk == /\ PreviousMondays(today).outcome = "returned"
                         /\ InDateRange(StartMonday(today))
          IN  /\ entry' = t
              /\ pc' = IF ~valid THEN pc
                       ELSE IF sim_choice = "4" THEN "exit"
                       ELSE IF redo
                         THEN (IF loaded THEN "simulate" ELSE "exit")
                       ELSE IF datesOk THEN "date_choice"
                       ELSE "OverflowError"
              /\ skip_input' = loaded
              /\ simulation_type' =
                    IF loaded THEN params.simulation_type
                    ELSE IF interactive
                      THEN (IF sim_choice = "1" THEN "exponential"
                                                ELSE "baseline")
                    ELSE simulation_type
              /\ initial_pot' =
                    IF loaded THEN params.initial_pot ELSE initial_pot
              /\ weekly_return_rate' =
                    IF loaded THEN params.weekly_return_rate
                              ELSE weekly_return_rate
              /\ total_weeks' =
                    IF loaded THEN params.total_weeks ELSE total_weeks
              /\ start_date' =
                    IF ~loaded THEN start_date
                    ELSE IF "start_date" \in DOMAIN params
                      THEN Strptime(params.start_date)
                    ELSE Combine(StartMonday(today), MinTime)
              /\ engine_cap' =
                    IF loaded /\ params.simulation_type = "baseline"
                      THEN params.engine_cap ELSE engine_cap
              /\ initial_vault' =
                    IF loaded /\ params.simulation_type = "baseline"
                      THEN params.initial_vault ELSE initial_vault
              /\ growth_vault_pct' =
                    IF loaded /\ params.simulation_type = "baseline"
                      THEN params.growth_vault_pct ELSE growth_vault_pct
              /\ harvest_vault_pct' =
                    IF loaded /\ params.simulation_type = "baseline"
                      THEN params.harvest_vault_pct ELSE harvest_vault_pct
    /\ UNCHANGED <<fn, now, simLocals, history, result, returned, txt_file,
                   last_params_file>>

\* select_start_date: option 1 or 2
MainDateChoice ==
    /\ fn = "main"
    /\ pc = "date_choice"
    /\ \E t \in DateEntries :
          LET date_choice == IF t = "" THEN "1" ELSE t
              valid == date_choice \in {"1", "2"}
              today == Date(now)
              mondays == PreviousMondays(today).mondays
          IN  /\ entry' = t
              /\ pc' = IF ~valid THEN pc
                       ELSE IF date_choice = "1" \/ mondays = <<>>
                         THEN "principal"
                       ELSE "monday_selection"
              /\ start_date' =
                    IF ~valid THEN start_date
                    ELSE IF date_choice = "1"
                      THEN Combine(StartMonday(today), MinTime)
                    ELSE IF mondays = <<>> THEN Combine(today, MinTime)
                    ELSE start_date
    /\ UNCHANGED <<fn, now, harvestArgs, simLocals, history, result, returned,
                   simulation_type, skip_input, txt_file, last_params_file>>

\* select_start_date: the list of Mondays, most recent first.  The lists of
\* the modelled dates fit on the first page, where "p" is not a command and
\* "n" is one only if there is a second page.
MainMondaySelection ==
    /\ fn = "main"
    /\ pc = "monday_selection"
    /\ \E t \in SelectionEntries :
          LET selection == IF t = "" THEN "1" ELSE t
              reversed_mondays == Reversed(PreviousMondays(Date(now)).mondays)
              turnsPage == /\ selection = "n"
                           /\ 0 < TotalPages(Len(reversed_mondays)) - 1
              parsed == ParseInt(selection)
              idx == parsed.value - 1
              accepted == /\ ~turnsPage
                          /\ parsed.ok
                          /\ 0 <= idx
                          /\ idx < Len(reversed_mondays)
          IN  /\ entry' = t
              /\ pc' = IF accepted THEN "principal" ELSE pc
              /\ start_date' =
                    IF accepted THEN reversed_mondays[idx + 1] ELSE start_date
    /\ UNCHANGED <<fn, now, harvestArgs, simLocals, history, result, returned,
                   simulation_type, skip_input, txt_file, last_params_file>>

\* default_rate_pct / 100.0 and float(rate_input) / 100.0
PercentToRate(x) == Mul(x, Rat(1, 100))

\* the principal; a baseline run then fixes weekly_return_rate = 0.25
MainPrincipal ==
    /\ fn = "main"
    /\ pc = "principal"
    /\ \E t \in PrincipalEntries :
          LET parsed == ParseFloat(t)
              ok == t = "" \/ parsed.ok
              value == IF t = "" THEN default_principal ELSE parsed.value
              accepted == ok
          IN  /\ entry' = t
              /\ initial_pot' = IF ok THEN value ELSE initial_pot
              /\ pc' = IF accepted THEN (IF simulation_type = "exponential"
                                         THEN "rate" ELSE "cap") ELSE pc
              /\ weekly_return_rate' =
                    IF accepted /\ simulation_type # "exponential"
                      THEN BaselineRate ELSE weekly_return_rate
    /\ UNCHANGED <<engine_cap, total_weeks, initial_vault, growth_vault_pct,
                   harvest_vault_pct>>
    /\ UNCHANGED <<fn, now, simLocals, history, result, returned,
                   simulation_type, start_date, skip_input, txt_file,
                   last_params_file>>

\* exponential: the weekly return rate, typed as a percentage
MainRate ==
    /\ fn = "main"
    /\ pc = "rate"
    /\ \E t \in RateEntries :
          LET parsed == ParseFloat(t)
              ok == t = "" \/ parsed.ok
              value == PercentToRate(IF t = "" THEN default_rate_pct ELSE parsed.value)
              accepted == ok
          IN  /\ entry' = t
              /\ weekly_return_rate' = IF ok THEN value ELSE weekly_return_rate
              /\ pc' = IF accepted THEN "periods" ELSE pc
    /\ UNCHANGED <<initial_pot, engine_cap, total_weeks, initial_vault,
                   growth_vault_pct, harvest_vault_pct>>
    /\ UNCHANGED <<fn, now, simLocals, history, result, returned,
                   simulation_type, start_date, skip_input, txt_file,
                   last_params_file>>

\* exponential: the number of periods
MainPeriods ==
    /\ fn = "main"
    /\ pc = "periods"
    /\ \E t \in PeriodsEntries :
          LET parsed == ParseInt(t)
              ok == t = "" \/ parsed.ok
              value == IF t = "" THEN default_weeks ELSE parsed.value
              accepted == ok
          IN  /\ entry' = t
              /\ total_weeks' = IF ok THEN value ELSE total_weeks
              /\ pc' = IF accepted THEN "simulate" ELSE pc
    /\ UNCHANGED <<initial_pot, weekly_return_rate, engine_cap, initial_vault,
                   growth_vault_pct, harvest_vault_pct>>
    /\ UNCHANGED <<fn, now, simLocals, history, result, returned,
                   simulation_type, start_date, skip_input, txt_file,
                   last_params_file>>

\* baseline: the engine cap
MainCap ==
    /\ fn = "main"
    /\ pc = "cap"
    /\ \E t \in CapEntries :
          LET parsed == ParseFloat(t)
              ok == t = "" \/ parsed.ok
              value == IF t = "" THEN default_cap ELSE parsed.value
              accepted == ok
          IN  /\ entry' = t
              /\ engine_cap' = IF ok THEN value ELSE engine_cap
              /\ pc' = IF accepted THEN "weeks" ELSE pc
    /\ UNCHANGED <<initial_pot, weekly_return_rate, total_weeks, initial_vault,
                   growth_vault_pct, harvest_vault_pct>>
    /\ UNCHANGED <<fn, now, simLocals, history, result, returned,
                   simulation_type, start_date, skip_input, txt_file,
                   last_params_file>>

\* baseline: the number of weeks
MainWeeks ==
    /\ fn = "main"
    /\ pc = "weeks"
    /\ \E t \in WeeksEntries :
          LET parsed == ParseInt(t)
              ok == t = "" \/ parsed.ok
              value == IF t = "" THEN default_weeks ELSE parsed.value
              accepted == ok
          IN  /\ entry' = t
              /\ total_weeks' = IF ok THEN value ELSE total_weeks
              /\ pc' = IF accepted THEN "vault" ELSE pc
    /\ UNCHANGED <<initial_pot, weekly_return_rate, engine_cap, initial_vault,
                   growth_vault_pct, harvest_vault_pct>>
    /\ UNCHANGED <<fn, now, simLocals, history, result, returned,
                   simulation_type, start_date, skip_input, txt_file,
                   last_params_file>>

\* baseline: the initial vault
MainVault ==
    /\ fn = "main"
    /\ pc = "vault"
    /\ \E t \in VaultEntries :
          LET parsed == ParseFloat(t)
              ok == t = "" \/ parsed.ok
              value == IF t = "" THEN default_vault ELSE parsed.value
              accepted == ok
          IN  /\ entry' = t
              /\ initial_vault' = IF ok THEN value ELSE initial_vault
              /\ pc' = IF accepted THEN "growth_pct" ELSE pc
    /\ UNCHANGED <<initial_pot, weekly_return_rate, engine_cap, total_weeks,
                   growth_vault_pct, harvest_vault_pct>>
    /\ UNCHANGED <<fn, now, simLocals, history, result, returned,
                   simulation_type, start_date, skip_input, txt_file,
                   last_params_file>>

\* baseline: the growth percentage; a parsed value is assigned before its
\* range is checked
MainGrowthPct ==
    /\ fn = "main"
    /\ pc = "growth_pct"
    /\ \E t \in GrowthEntries :
          LET parsed == ParseFloat(t)
              ok == t = "" \/ parsed.ok
              value == IF t = "" THEN default_growth_pct ELSE parsed.value
              accepted == t = "" \/ (parsed.ok /\ PctInRange(parsed.value))
          IN  /\ entry' = t
              /\ growth_vault_pct' = IF ok THEN value ELSE growth_vault_pct
              /\ pc' = IF accepted THEN "harvest_pct" ELSE pc
    /\ UNCHANGED <<initial_pot, weekly_return_rate, engine_cap, total_weeks,
                   initial_vault, harvest_vault_pct>>
    /\ UNCHANGED <<fn, now, simLocals, history, result, returned,
                   simulation_type, start_date, skip_input, txt_file,
                   last_params_file>>

\* baseline: the harvest percentage
MainHarvestPct ==
    /\ fn = "main"
    /\ pc = "harvest_pct"
    /\ \E t \in HarvestEntries :
          LET parsed == ParseFloat(t)
              ok == t = "" \/ parsed.ok
              value == IF t = "" THEN default_harvest_pct ELSE parsed.value
              accepted == t = "" \/ (parsed.ok /\ PctInRange(parsed.value))
          IN  /\ entry' = t
              /\ harvest_vault_pct' = IF ok THEN value ELSE harvest_vault_pct
              /\ pc' = IF accepted THEN "simulate" ELSE pc
    /\ UNCHANGED <<initial_pot, weekly_return_rate, engine_cap, total_weeks,
                   initial_vault, growth_vault_pct>>
    /\ UNCHANGED <<fn, now, simLocals, history, result, returned,
                   simulation_type, start_date, skip_input, txt_file,
                   last_params_file>>

\* the call of the simulator and, for the exponential one, the list built
\* from the amounts
MainSimulate ==
    /\ fn = "main"
    /\ pc = "simulate"
    /\ IF simulation_type = "exponential"
         THEN LET raises == ExpCallRaises(weekly_return_rate, total_weeks)
                  call == CallRecord("exp",
                              <<initial_pot, weekly_return_rate, total_weeks>>,
                              IF raises THEN "OverflowError" ELSE "returned",
                              IF raises THEN <<>>
                                        ELSE EnumeratedAmounts(total_weeks))
              IN  /\ returned' = Append(returned, call)
                  /\ result' = call.result
                  /\ history' = call.result
                  /\ pc' = IF raises THEN "OverflowError" ELSE "report"
         ELSE LET call == CallRecord("harvest", harvestArgs, "returned",
                                     BaselineWeeks(total_weeks))
              IN  /\ returned' = Append(returned, call)
                  /\ result' = call.result
                  /\ history' = call.result
                  /\ pc' = "report"
    /\ UNCHANGED <<fn, now, harvestArgs, simLocals, mainState>>

\* the dates, the lines of the report (which read history[-1]) and the
\* writing of simulation.txt
MainReport ==
    /\ fn = "main"
    /\ pc = "report"
    /\ pc' = IF DatesOverflow(start_date, Len(history)) THEN "OverflowError"
             ELSE IF history = <<>> THEN "IndexError"
             ELSE "save"
    /\ txt_file' = IF pc' = "save" THEN "written" ELSE txt_file
    /\ UNCHANGED <<fn, now, harvestArgs, simLocals, history, result, returned,
                   simulation_type, start_date, skip_input, entry,
                   last_params_file>>

\* the saving of the parameters; printing and plotting follow
MainSave ==
    /\ fn = "main"
    /\ pc = "save"
    /\ last_params_file' =
          JsonDump(ParamsToSave(simulation_type, initial_pot,
                                weekly_return_rate, total_weeks, start_date,
                                engine_cap, initial_vault, growth_vault_pct,
                                harvest_vault_pct))
    /\ pc' = "done"
    /\ UNCHANGED <<fn, now, harvestArgs, simLocals, history, result, returned,
                   mainLocals>>

\* the program is started again, at the same time or later
MainStart ==
    /\ fn = "main"
    /\ MainEnded
    /\ pc' = "menu"
    /\ now' \in { t \in MainNows : t.day >= now.day }
    /\ initial_pot' = Zero /\ weekly_return_rate' = Zero /\ engine_cap' = Zero
    /\ total_weeks' = 0 /\ initial_vault' = Zero
    /\ growth_vault_pct' = Zero /\ harvest_vault_pct' = Zero
    /\ history' = <<>> /\ result' = <<>> /\ returned' = <<>>
    /\ simulation_type' = "" /\ start_date' = Epoch /\ skip_input' = FALSE
    /\ entry' = "" /\ txt_file' = "absent"
    /\ UNCHANGED <<fn, simLocals, last_params_file>>

NextMain ==
    \/ MainMenu \/ MainDateChoice \/ MainMondaySelection
    \/ MainPrincipal \/ MainRate \/ MainPeriods
    \/ MainCap \/ MainWeeks \/ MainVault \/ MainGrowthPct \/ MainHarvestPct
    \/ MainSimulate \/ MainReport \/ MainSave
    \/ MainStart

SpecMain == InitMain /\ [][NextMain]_vars

----------------------------------------------------------------------------
(* Reading the recorded history of a harvest run.                          *)

Harvesting == fn = "harvest"

Recorded == DOMAIN history

PrevPot(k) == IF k = 1 THEN initial_pot ELSE history[k - 1].pot

PrevVault(k) == IF k = 1 THEN initial_vault ELSE history[k - 1].vault

PrevSpend(k) == IF k = 1 THEN Zero ELSE history[k - 1].spend

\* the pot of week k after the profit is added and before the cap is applied
PotBeforeCap(k) == Add(PrevPot(k), history[k].profit)

Withdrew(k) == Gt(history[k].withdrawal, Zero)

VaultDelta(k) == Sub(history[k].vault, PrevVault(k))

SpendDelta(k) == Sub(history[k].spend, PrevSpend(k))

Pct(x) == Mul(x, Rat(1, 100))

SplitBy(k, pct) ==
    /\ VaultDelta(k) = Mul(history[k].withdrawal, Pct(pct))
    /\ SpendDelta(k) = Mul(history[k].withdrawal, Sub(One, Pct(pct)))

MaxRat(x, y) == IF Lt(x, y) THEN y ELSE x

ValidPct(x) == Le(Zero, x) /\ Le(x, Rat(100, 1))

----------------------------------------------------------------------------
\* C1: in every week record of a harvest run, the recorded pot (after the
\* week's transaction) is at most engine_cap.
C1_PotAtMostCap ==
    Harvesting => \A k \in Recorded : Le(history[k].pot, engine_cap)

\* a run with a capped week and a later week strictly below the cap
C1_Witness ==
    /\ Harvesting
    /\ \E j, k \in Recorded :
          /\ j < k
          /\ Withdrew(j) /\ history[j].pot = engine_cap
          /\ Lt(history[k].pot, engine_cap)

----------------------------------------------------------------------------
\* C2 (as claimed): once a week of the run has withdrawn, every later week
\* that withdraws splits its withdrawal with harvest_vault_pct/100, whatever
\* happened to the pot in between.
C2_FlagNeverResets ==
    Harvesting =>
        \A j, k \in Recorded :
            (j < k /\ Withdrew(j) /\ Withdrew(k)) => SplitBy(k, harvest_vault_pct)

\* the value of in_harvest_phase at the start of week k, read off the
\* history: some earlier week withdrew and no week since then had its pot
\* with profit below the cap
FlagAt(k) ==
    \E j \in 1 .. (k - 1) :
        /\ Withdrew(j)
        /\ \A i \in (j + 1) .. (k - 1) : ~Lt(PotBeforeCap(i), engine_cap)

\* C2 (amended): the phase flag is set by a week that withdraws and reset
\* by every week whose pot with profit is below engine_cap; a week that
\* withdraws splits with harvest_vault_pct/100 exactly when an earlier week
\* withdrew and no week in between was below the cap, and with
\* growth_vault_pct/100 otherwise.
C2_FlagResetsBelowCap ==
    Harvesting =>
        /\ in_harvest_phase = FlagAt(Len(history) + 1)
        /\ \A k \in Recorded :
              Withdrew(k) =>
                  SplitBy(k, IF FlagAt(k) THEN harvest_vault_pct
                             ELSE growth_vault_pct)

\* a withdrawal, then a week below the cap, then another withdrawal, with
\* different percentages for the two phases
C2_Witness ==
    /\ Harvesting
    /\ growth_vault_pct # harvest_vault_pct
    /\ \E j, i, k \in Recorded :
          /\ j < i /\ i < k
          /\ Withdrew(j) /\ Withdrew(k)
          /\ Lt(PotBeforeCap(i), engine_cap)
          /\ SplitBy(k, growth_vault_pct)

----------------------------------------------------------------------------
FirstWithdrawal(k) == Withdrew(k) /\ \A j \in 1 .. (k - 1) : ~Withdrew(j)

\* C3: the first week of a run that withdraws splits the withdrawal with
\* growth_vault_pct/100; the phase flag is false as long as no week has
\* withdrawn and true right after that first week.
C3_FirstWithdrawalUsesGrowth ==
    Harvesting =>
        /\ (\A k \in Recorded : ~Withdrew(k)) => in_harvest_phase = FALSE
        /\ \A k \in Recorded :
              FirstWithdrawal(k) =>
                  /\ SplitBy(k, growth_vault_pct)
                  /\ (k = Len(history) => in_harvest_phase = TRUE)

\* the first withdrawal has just happened, after at least one week without
C3_Witness ==
    /\ Harvesting
    /\ Len(history) >= 2
    /\ FirstWithdrawal(Len(history))
    /\ growth_vault_pct # harvest_vault_pct
    /\ in_harvest_phase = TRUE

----------------------------------------------------------------------------
\* C4: every week's withdrawal is max(0, pot_before_cap - engine_cap), and a
\* week that withdraws records a pot equal to engine_cap.
C4_WithdrawalIsExcess ==
    Harvesting =>
        \A k \in Recorded :
            /\ history[k].withdrawal =
                   MaxRat(Zero, Sub(PotBeforeCap(k), engine_cap))
            /\ Withdrew(k) => history[k].pot = engine_cap

\* a week that withdraws and a week that does not, in one run
C4_Witness ==
    /\ Harvesting
    /\ \E j, k \in Recorded :
          /\ Withdrew(j) /\ history[j].pot = engine_cap
          /\ ~Withdrew(k) /\ Lt(PotBeforeCap(k), engine_cap)

----------------------------------------------------------------------------
\* C5: a week that withdraws adds withdrawal * a to the vault and
\* withdrawal * (1 - a) to spend, a being growth_vault_pct/100 when the
\* phase flag is false at the start of the week and harvest_vault_pct/100
\* when it is true; the two additions sum to the withdrawal.
C5_WithdrawalConserved ==
    [][(Harvesting /\ Len(history') = Len(history) + 1
          /\ Gt(history'[Len(history')].withdrawal, Zero)) =>
        LET w == history'[Len(history')].withdrawal
            a == IF in_harvest_phase THEN Pct(harvest_vault_pct)
                 ELSE Pct(growth_vault_pct)
        IN  /\ Sub(vault', vault) = Mul(w, a)
            /\ Sub(spend', spend) = Mul(w, Sub(One, a))
            /\ Add(Sub(vault', vault), Sub(spend', spend)) = w
            /\ history'[Len(history')].vault = vault'
            /\ history'[Len(history')].spend = spend'
      ]_vars

\* a growth-phase and a harvest-phase withdrawal with unequal, uneven splits
C5_Witness ==
    /\ Harvesting
    /\ growth_vault_pct = Rat(50, 1) /\ harvest_vault_pct = Rat(25, 1)
    /\ \E j, k \in Recorded :
          /\ j < k /\ Withdrew(j) /\ Withdrew(k)
          /\ SplitBy(j, growth_vault_pct) /\ SplitBy(k, harvest_vault_pct)
          /\ Add(VaultDelta(k), SpendDelta(k)) = history[k].withdrawal

----------------------------------------------------------------------------
\* C6: with both percentages in [0,100], vault and spend never decrease
\* from one week record to the next, starting from initial_vault and 0.
C6_VaultSpendMonotone ==
    (Harvesting /\ ValidPct(growth_vault_pct) /\ ValidPct(harvest_vault_pct)) =>
        \A k \in Recorded :
            /\ Le(PrevVault(k), history[k].vault)
            /\ Le(PrevSpend(k), history[k].spend)

\* two withdrawals under valid percentages, both totals strictly growing
C6_Witness ==
    /\ Harvesting
    /\ ValidPct(growth_vault_pct) /\ ValidPct(harvest_vault_pct)
    /\ \E j, k \in Recorded :
          /\ j < k
          /\ Lt(PrevVault(j), history[j].vault)
          /\ Lt(PrevSpend(j), history[j].spend)
          /\ Lt(PrevVault(k), history[k].vault)
          /\ Lt(PrevSpend(k), history[k].spend)

----------------------------------------------------------------------------
\* C7: a week whose pot with profit is below engine_cap withdraws nothing,
\* leaves vault and spend as they were, and records the pot
\* previous_pot * (1 + weekly_return_rate), unclamped.
C7_DeficitRule ==
    Harvesting =>
        \A k \in Recorded :
            Lt(PotBeforeCap(k), engine_cap) =>
                /\ history[k].withdrawal = Zero
                /\ history[k].vault = PrevVault(k)
                /\ history[k].spend = PrevSpend(k)
                /\ history[k].pot =
                       Mul(PrevPot(k), Add(One, weekly_return_rate))

\* a deficit week whose recorded pot is negative, after a week that withdrew
C7_Witness ==
    /\ Harvesting
    /\ Lt(weekly_return_rate, Zero)
    /\ \E j, k \in Recorded :
          /\ j < k
          /\ Withdrew(j)
          /\ Lt(PotBeforeCap(k), engine_cap)
          /\ Lt(history[k].pot, Zero)
          /\ history[k].vault = history[j].vault

----------------------------------------------------------------------------
\* C8: the harvest engine returns exactly total_weeks records, the i-th
\* with week = i; with total_weeks = 0 it returns the empty sequence.
C8_OneRecordPerWeek ==
    (Harvesting /\ pc = "done") =>
        /\ Len(result) = total_weeks
        /\ \A i \in 1 .. Len(result) : result[i].week = i
        /\ (total_weeks = 0 => result = <<>>)

\* a returned history of several weeks
C8_Witness ==
    /\ Harvesting /\ pc = "done"
    /\ total_weeks >= 3
    /\ Len(result) = total_weeks
    /\ result[total_weeks].week = total_weeks

----------------------------------------------------------------------------
\* C9: the profit recorded for week k is weekly_return_rate times the pot
\* recorded for week k-1 (initial_pot for week 1), withdrawal or not.
C9_ProfitIsRawGain ==
    Harvesting =>
        \A k \in Recorded :
            history[k].profit = Mul(weekly_return_rate, PrevPot(k))

\* a later week that withdraws, its profit computed on the capped pot
C9_Witness ==
    /\ Harvesting
    /\ \E k \in Recorded :
          /\ k >= 2
          /\ Withdrew(k) /\ Withdrew(k - 1)
          /\ history[k].profit # Zero
          /\ history[k].profit = Mul(weekly_return_rate, engine_cap)
          /\ history[k].profit # Mul(weekly_return_rate, initial_pot)

----------------------------------------------------------------------------
\* C10: simulate_exponential_growth(P, r, n) returns, for every P, r and
\* n >= 0, n+1 amounts, the first being P and the one at index k being
\* P * (1 + r)^k for k in 1..n.
C10_ReturnsClosedForm ==
    (fn = "exp" /\ pc # "loop") =>
        /\ pc = "done"
        /\ Len(result) = periods + 1
        /\ result[1] = P
        /\ \A k \in 1 .. periods :
              result[k + 1] = Mul(P, Pow(Add(One, r), k))

\* the part of C10 that holds: every sequence simulate_exponential_growth
\* returns has n+1 amounts, the first being P and the one at index k being
\* P * (1 + r)^k for k in 1..n.
C10_ClosedForm ==
    (fn = "exp" /\ pc = "done") =>
        /\ Len(result) = periods + 1
        /\ result[1] = P
        /\ \A k \in 1 .. periods :
              result[k + 1] = Mul(P, Pow(Add(One, r), k))

\* a returned sequence of several periods that actually grows
C10_Witness ==
    /\ fn = "exp" /\ pc = "done"
    /\ periods >= 3
    /\ r = Rat(1, 4)
    /\ P = Rat(1000, 1)
    /\ Len(result) = periods + 1
    /\ result[4] = Rat(125000, 64)

----------------------------------------------------------------------------
\* C11: simulate_exponential_growth(P, 0, n) returns n+1 amounts, every one
\* equal to P.
C11_ZeroRateIsConstant ==
    (fn = "exp" /\ pc = "done" /\ r = Zero) =>
        /\ Len(result) = periods + 1
        /\ \A k \in 1 .. Len(result) : result[k] = P

\* a returned flat sequence of several periods with a positive principal
C11_Witness ==
    /\ fn = "exp" /\ pc = "done"
    /\ r = Zero
    /\ P = Rat(1000, 1)
    /\ periods >= 3
    /\ result[periods + 1] = Rat(1000, 1)

----------------------------------------------------------------------------
\* C12: when the pot with profit is below engine_cap in every recorded week,
\* every record has withdrawal 0, vault = initial_vault, spend 0 and
\* pot = previous pot * (1 + weekly_return_rate).
C12_AccumulationOnly ==
    (Harvesting /\ \A k \in Recorded : Lt(PotBeforeCap(k), engine_cap)) =>
        \A k \in Recorded :
            /\ history[k].withdrawal = Zero
            /\ history[k].vault = initial_vault
            /\ history[k].spend = Zero
            /\ history[k].pot = Mul(PrevPot(k), Add(One, weekly_return_rate))

\* the run of test_accumulation_phase_only after four weeks: 1464.1
C12_Witness ==
    /\ Harvesting
    /\ initial_pot = Rat(1000, 1) /\ weekly_return_rate = Rat(1, 10)
    /\ engine_cap = Rat(10000, 1) /\ initial_vault = Zero
    /\ Len(history) >= 4
    /\ \A k \in Recorded : Lt(PotBeforeCap(k), engine_cap)
    /\ history[4].pot = Rat(14641, 10)
    /\ history[4].vault = Zero /\ history[4].spend = Zero

----------------------------------------------------------------------------
HighReturnRun ==
    /\ Harvesting
    /\ initial_pot = Rat(5000, 1) /\ weekly_return_rate = One
    /\ engine_cap = Rat(6000, 1) /\ initial_vault = Zero
    /\ growth_vault_pct = Rat(50, 1) /\ harvest_vault_pct = Rat(25, 1)

\* C13: with weekly_return_rate > 0 and engine_cap > 0, from the first week
\* that withdraws every record has pot = engine_cap; that week is split by
\* growth_vault_pct and every later week withdraws
\* engine_cap * weekly_return_rate, split by harvest_vault_pct.  The run
\* (5000, 1.0, 6000, 2 weeks, 0, 50, 25) records pot 6000, withdrawal 4000,
\* vault 2000, spend 2000 and then pot 6000, withdrawal 6000, vault 3500,
\* spend 6500.
C13_SteadyHarvest ==
    /\ (Harvesting /\ Gt(weekly_return_rate, Zero) /\ Gt(engine_cap, Zero)) =>
          \A k \in Recorded :
              FirstWithdrawal(k) =>
                  /\ SplitBy(k, growth_vault_pct)
                  /\ \A m \in Recorded :
                        /\ m >= k => history[m].pot = engine_cap
                        /\ m > k =>
                              /\ history[m].withdrawal =
                                     Mul(engine_cap, weekly_return_rate)
                              /\ SplitBy(m, harvest_vault_pct)
    /\ (HighReturnRun /\ Len(history) >= 1) =>
          /\ history[1].pot = Rat(6000, 1)
          /\ history[1].withdrawal = Rat(4000, 1)
          /\ history[1].vault = Rat(2000, 1)
          /\ history[1].spend = Rat(2000, 1)
    /\ (HighReturnRun /\ Len(history) >= 2) =>
          /\ history[2].pot = Rat(6000, 1)
          /\ history[2].withdrawal = Rat(6000, 1)
          /\ history[2].vault = Rat(3500, 1)
          /\ history[2].spend = Rat(6500, 1)

\* the run of test_high_return_rate, returned after its two weeks
C13_Witness ==
    /\ HighReturnRun
    /\ pc = "done" /\ total_weeks = 2
    /\ FirstWithdrawal(1) /\ Withdrew(2)
    /\ result[2].vault = Rat(3500, 1)

----------------------------------------------------------------------------
\* C14 (as claimed): with engine_cap = 0 and a positive initial_pot, every
\* week of the run withdraws.  Stated for rates >= 0, under which the pot
\* with profit is never negative.
C14_WithdrawsEveryWeek ==
    (Harvesting /\ engine_cap = Zero /\ Gt(initial_pot, Zero)
       /\ Le(Zero, weekly_return_rate)) =>
        \A k \in Recorded : Withdrew(k)

\* C14 (amended): with engine_cap = 0 and a positive initial_pot at most one
\* week of the run withdraws; it empties the pot, and every later week
\* records pot 0, profit 0 and withdrawal 0.  With weekly_return_rate > -1
\* that week is week 1 and it withdraws initial_pot * (1 + rate).
C14_WithdrawsOnce ==
    (Harvesting /\ engine_cap = Zero /\ Gt(initial_pot, Zero)) =>
        /\ \A j, k \in Recorded :
              (Withdrew(j) /\ j < k) =>
                  /\ history[k].pot = Zero
                  /\ history[k].profit = Zero
                  /\ history[k].withdrawal = Zero
        /\ (Gt(Add(One, weekly_return_rate), Zero) /\ Len(history) >= 1) =>
              /\ Withdrew(1)
              /\ history[1].withdrawal =
                     Mul(initial_pot, Add(One, weekly_return_rate))

\* a zero-cap run with a positive rate, several weeks after its withdrawal
C14_Witness ==
    /\ Harvesting
    /\ engine_cap = Zero /\ Gt(initial_pot, Zero)
    /\ Gt(weekly_return_rate, Zero)
    /\ Len(history) >= 3
    /\ Withdrew(1) /\ ~Withdrew(2) /\ ~Withdrew(3)

----------------------------------------------------------------------------
\* C15: with weekly_return_rate = 0, a run with initial_pot < engine_cap
\* records pot = initial_pot and withdrawal 0 every week; a run with
\* initial_pot >= engine_cap withdraws initial_pot - engine_cap in week 1,
\* split by growth_vault_pct, and nothing in any later week.
C15_ZeroRate ==
    (Harvesting /\ weekly_return_rate = Zero) =>
        /\ Lt(initial_pot, engine_cap) =>
              \A k \in Recorded :
                  /\ history[k].pot = initial_pot
                  /\ history[k].withdrawal = Zero
        /\ ~Lt(initial_pot, engine_cap) =>
              \A k \in Recorded :
                  /\ k = 1 =>
                        /\ history[k].withdrawal = Sub(initial_pot, engine_cap)
                        /\ SplitBy(k, growth_vault_pct)
                  /\ k > 1 => history[k].withdrawal = Zero

\* a zero-rate run starting above the cap, two weeks after its withdrawal
C15_Witness ==
    /\ Harvesting
    /\ weekly_return_rate = Zero
    /\ Lt(engine_cap, initial_pot)
    /\ growth_vault_pct # harvest_vault_pct
    /\ Len(history) >= 3
    /\ Withdrew(1) /\ ~Withdrew(3)
    /\ history[3].vault =
           Add(initial_vault,
               Mul(Sub(initial_pot, engine_cap), Pct(growth_vault_pct)))

----------------------------------------------------------------------------
DefaultPcts ==
    /\ growth_vault_pct = DefaultGrowthPct
    /\ harvest_vault_pct = DefaultHarvestPct

\* C16 (as claimed): with the default percentages, a record with
\* pot >= engine_cap has pot = engine_cap, withdrawal > 0,
\* vault > initial_vault and spend > 0; a record with pot < engine_cap has
\* withdrawal 0.  Stated for engine_cap > 0 and weekly_return_rate > 0.
C16_AtCapImpliesWithdrawal ==
    (Harvesting /\ DefaultPcts /\ Gt(engine_cap, Zero)
       /\ Gt(weekly_return_rate, Zero)) =>
        \A k \in Recorded :
            /\ ~Lt(history[k].pot, engine_cap) =>
                  /\ history[k].pot = engine_cap
                  /\ Gt(history[k].withdrawal, Zero)
                  /\ Gt(history[k].vault, initial_vault)
                  /\ Gt(history[k].spend, Zero)
            /\ Lt(history[k].pot, engine_cap) => history[k].withdrawal = Zero

\* C16 (amended): with the default percentages, a record with
\* pot >= engine_cap has pot = engine_cap; it has withdrawal > 0,
\* vault > initial_vault and spend > 0 when the week's pot with profit was
\* above engine_cap, and withdrawal 0 when it was exactly engine_cap.  A
\* record with pot < engine_cap has withdrawal 0.
C16_AboveCapImpliesWithdrawal ==
    (Harvesting /\ DefaultPcts) =>
        \A k \in Recorded :
            /\ ~Lt(history[k].pot, engine_cap) =>
                  /\ history[k].pot = engine_cap
                  /\ Gt(PotBeforeCap(k), engine_cap) =>
                        /\ Gt(history[k].withdrawal, Zero)
                        /\ Gt(history[k].vault, initial_vault)
                        /\ Gt(history[k].spend, Zero)
                  /\ PotBeforeCap(k) = engine_cap =>
                        history[k].withdrawal = Zero
            /\ Lt(history[k].pot, engine_cap) => history[k].withdrawal = Zero

\* the run of test_distribution_phase, capped in each of its first weeks
C16_Witness ==
    /\ Harvesting /\ DefaultPcts
    /\ initial_pot = Rat(9000, 1) /\ weekly_return_rate = Rat(1, 5)
    /\ engine_cap = Rat(10000, 1) /\ initial_vault = Rat(100, 1)
    /\ Len(history) >= 3
    /\ history[1].pot = engine_cap
    /\ history[1].withdrawal = Rat(800, 1)
    /\ history[1].vault = Rat(500, 1)
    /\ history[3].pot = engine_cap /\ Withdrew(3)

----------------------------------------------------------------------------
\* C17: both simulators are total: a call runs exactly periods or
\* total_weeks loop iterations and returns a complete sequence; no call
\* ends in an error.
C17_Total ==
    /\ pc # "raised"
    /\ pc = "loop" => (week <= total_weeks + 1 /\ n <= periods + 1)
    /\ (Harvesting /\ pc = "done") =>
          (week = total_weeks + 1 /\ Len(result) = total_weeks)
    /\ (fn = "exp" /\ pc = "done") =>
          (n = periods + 1 /\ Len(result) = periods + 1)

----------------------------------------------------------------------------
\* C18: two calls of a simulator with identical arguments give their caller
\* the same outcome and the same sequence, whatever calls were made before
\* or between them.
C18_CallsIndependent ==
    \A i, j \in DOMAIN returned :
        (returned[i].fn = returned[j].fn /\ returned[i].args = returned[j].args)
            => /\ returned[i].outcome = returned[j].outcome
               /\ returned[i].result = returned[j].result

\* the same harvest call made first and third, a different call in between,
\* the first having ended in the harvest phase
C18_Witness ==
    /\ Len(returned) = 3
    /\ returned[1].fn = "harvest"
    /\ returned[3].fn = "harvest"
    /\ returned[1].args = returned[3].args
    /\ returned[2].args # returned[1].args
    /\ Len(returned[1].result) = 2
    /\ returned[1].result[2].withdrawal = Rat(2, 1)
    /\ returned[3].result = returned[1].result

----------------------------------------------------------------------------
\* C19: for every current date and time of day, get_start_monday returns
\* (it does not raise) a datetime at midnight whose weekday is Monday.
C19_MidnightMonday ==
    fn = "get_start_monday" =>
        /\ pc # "raised"
        /\ pc = "done" =>
              /\ result.second = 0
              /\ result.day \in MinOrdinal .. MaxOrdinal
              /\ (result.day - MinOrdinal) % 7 = 0

\* called on a Sunday shortly before midnight
C19_Witness ==
    /\ fn = "get_start_monday"
    /\ pc = "done"
    /\ now.second = 86399
    /\ (now.day - MinOrdinal) % 7 = 6
    /\ result = DateTime(now.day + 1, 0)

----------------------------------------------------------------------------
\* C20: on a Saturday the result is today + 2 days, on a Sunday today + 1
\* day; from Monday to Friday it is today minus weekday days, the most
\* recent Monday, which on a Monday is today itself.
C20_WhichMonday ==
    (fn = "get_start_monday" /\ pc = "done") =>
        LET today == now.day
            weekday == (today - MinOrdinal) % 7
            delta == result.day - today
        IN  /\ weekday = 5 => delta = 2
            /\ weekday = 6 => delta = 1
            /\ weekday <= 4 => (delta = -weekday /\ delta <= 0 /\ delta >= -4)
            /\ weekday = 0 => result.day = today

\* the tests' Saturday 2026-01-10, answered with Monday 2026-01-12
C20_Witness ==
    /\ fn = "get_start_monday"
    /\ pc = "done"
    /\ now.day = TestMonday + 5
    /\ result.day = TestMonday + 7

----------------------------------------------------------------------------
\* the pot of week k with its profit is exactly engine_cap
LandsOnCap(k) == PotBeforeCap(k) = engine_cap

\* C23: a week whose pot after profit is exactly engine_cap withdraws
\* nothing, leaves vault, spend and the phase flag as they were and records
\* pot = engine_cap; and when no week up to it withdrew, the first week that
\* withdraws afterwards is split with growth_vault_pct/100.
C23_LandingOnCap ==
    /\ [][ (HarvestWeek /\ PotWithProfit(pot, weekly_return_rate) = engine_cap)
              => /\ vault' = vault
                 /\ spend' = spend
                 /\ in_harvest_phase' = in_harvest_phase
                 /\ pot' = engine_cap
                 /\ history'[week].withdrawal = Zero
                 /\ history'[week].pot = engine_cap
                 /\ history'[week].vault = vault
                 /\ history'[week].spend = spend ]_vars
    /\ [](Harvesting =>
            \A k \in Recorded : \A j \in Recorded :
                (/\ LandsOnCap(k)
                 /\ k < j
                 /\ FirstWithdrawal(j))
                    => SplitBy(j, growth_vault_pct))

\* week 1 lands on the cap (1 + 1 = 2), week 2 is the first to withdraw and
\* splits 2 by a growth percentage that differs from the harvest percentage
C23_Witness ==
    /\ Harvesting
    /\ Len(history) >= 2
    /\ LandsOnCap(1)
    /\ history[1].withdrawal = Zero
    /\ history[1].pot = engine_cap
    /\ Withdrew(2)
    /\ growth_vault_pct # harvest_vault_pct
    /\ SplitBy(2, growth_vault_pct)
    /\ ~SplitBy(2, harvest_vault_pct)

----------------------------------------------------------------------------
RECURSIVE SumProfit(_)
SumProfit(k) == IF k = 0 THEN Zero ELSE Add(SumProfit(k - 1), history[k].profit)

Holdings(k) == Add(Add(history[k].pot, history[k].vault), history[k].spend)

\* C27: after every week k, pot + vault + spend equals initial_pot +
\* initial_vault + the profits of weeks 1..k, for any percentages and rate;
\* the current pot, vault and spend are those of the last record.
C27_MoneyConserved ==
    Harvesting =>
        /\ \A k \in Recorded :
              Holdings(k) = Add(Add(initial_pot, initial_vault), SumProfit(k))
        /\ Add(Add(pot, vault), spend)
              = Add(Add(initial_pot, initial_vault), SumProfit(Len(history)))

\* two withdrawals, split by a percentage above 100 and by another one
C27_Witness ==
    /\ Harvesting
    /\ pc = "done"
    /\ Len(history) >= 3
    /\ \E j, k \in Recorded : j < k /\ Withdrew(j) /\ Withdrew(k)
    /\ growth_vault_pct = Rat(150, 1)
    /\ harvest_vault_pct = Rat(25, 1)
    /\ Lt(spend, Zero) \/ Gt(spend, Zero)
    /\ Holdings(Len(history))
          = Add(Add(initial_pot, initial_vault), SumProfit(Len(history)))

----------------------------------------------------------------------------
\* The engine of the claim's comparison: the harvest engine whose flag, once
\* set by a withdrawal, is never reset.  NeverResetRun(k) is its state after
\* k weeks on the arguments of the run.
RECURSIVE NeverResetRun(_)
NeverResetRun(k) ==
    IF k = 0
      THEN [pot |-> initial_pot, vault |-> initial_vault, spend |-> Zero,
            flag |-> FALSE, history |-> <<>>]
      ELSE LET s == NeverResetRun(k - 1)
               profit == Profit(s.pot, weekly_return_rate)
               p == PotWithProfit(s.pot, weekly_return_rate)
               withdrawal == Withdrawal(p, engine_cap)
               a == VaultAllocation(s.flag, growth_vault_pct,
                                    harvest_vault_pct)
               takes == Gt(withdrawal, Zero)
               v == IF takes THEN VaultAfter(s.vault, withdrawal, a)
                             ELSE s.vault
               sp == IF takes THEN SpendAfter(s.spend, withdrawal, a)
                              ELSE s.spend
               q == PotAfter(p, engine_cap)
           IN  [pot |-> q, vault |-> v, spend |-> sp,
                flag |-> (s.flag \/ takes),
                history |-> Append(s.history,
                                   WeekRecord(k, q, v, sp, profit, withdrawal))]

\* C28: for engine_cap > 0 and weekly_return_rate >= -1 the history of the
\* run equals, week for week, that of the engine whose flag is never reset;
\* no week withdraws after a week whose pot with profit was below the cap
\* that itself followed a withdrawal.
C28_ResetUnobservable ==
    (/\ Harvesting
     /\ Gt(engine_cap, Zero)
     /\ Le(Rat(-1, 1), weekly_return_rate))
        => /\ history = NeverResetRun(Len(history)).history
           /\ pc = "done" => result = NeverResetRun(total_weeks).history
           /\ \A i, j, k \in Recorded :
                 (i < j /\ j < k /\ Withdrew(i)
                  /\ Lt(PotBeforeCap(j), engine_cap)) => ~Withdrew(k)

\* a losing run: the first week withdraws, every later week is below the cap
\* and resets the flag, and the returned history is that of the other engine
C28_Witness ==
    /\ Harvesting
    /\ pc = "done"
    /\ Gt(engine_cap, Zero)
    /\ weekly_return_rate = Rat(-1, 2)
    /\ growth_vault_pct # harvest_vault_pct
    /\ Len(result) >= 3
    /\ Withdrew(1)
    /\ Lt(PotBeforeCap(2), engine_cap)
    /\ in_harvest_phase = FALSE
    /\ NeverResetRun(total_weeks).flag = TRUE
    /\ result = NeverResetRun(total_weeks).history

----------------------------------------------------------------------------
FiftyFifty ==
    /\ growth_vault_pct = Rat(50, 1)
    /\ harvest_vault_pct = Rat(50, 1)

\* C30: called with growth_vault_pct = harvest_vault_pct = 50, the harvest
\* engine builds and returns the same records as
\* simulate_10K_baseline_harvest_engine on the same first five arguments.
C30_SameAsTenK ==
    (Harvesting /\ FiftyFifty)
        => /\ history = TenKRun(Len(history)).history
           /\ pc = "done" => result = TenKResult

\* a 50/50 run that withdrew in both phases
C30_Witness ==
    /\ Harvesting
    /\ FiftyFifty
    /\ pc = "done"
    /\ Len(result) >= 3
    /\ \E j, k \in Recorded : j < k /\ Withdrew(j) /\ Withdrew(k)
    /\ Gt(initial_vault, Zero)
    /\ result = TenKResult

----------------------------------------------------------------------------
MondaysOfYearUpTo(today) ==
    { d \in (today - 366) .. today :
        /\ d >= MinOrdinal
        /\ (d - MinOrdinal) % 7 = 0
        /\ \E y \in (YearOf(today) - 1) .. (YearOf(today) + 1) :
              /\ DaysBeforeYear(y) < d
              /\ DaysBeforeYear(y) < today
              /\ today <= DaysBeforeYear(y + 1) }

ListsMondaysOfYear ==
    LET today == now.day
        S == MondaysOfYearUpTo(today)
    IN  /\ Len(result) = Cardinality(S)
        /\ \A i \in DOMAIN result :
              /\ result[i].second = 0
              /\ result[i].day \in S
        /\ \A i \in 1 .. (Len(result) - 1) :
              result[i + 1].day = result[i].day + 7
        /\ (S = {}) = (result = <<>>)

CalledPreviousMondays == fn = "get_previous_mondays_of_year" /\ pc # "call"

\* C22 (as claimed): get_previous_mondays_of_year returns, ascending and 7
\* days apart, all and only the Mondays of the current year up to today,
\* from the first Monday on or after January 1; the list is empty when
\* today precedes that Monday.
C22_MondaysOfYear ==
    CalledPreviousMondays => (pc = "done" /\ ListsMondaysOfYear)

\* what holds of the call: it returns that list unless the Monday after the
\* last one collected is beyond 9999-12-31, and then it raises
C22_MondaysUnlessLastWeek ==
    CalledPreviousMondays =>
        IF now.day + 7 - ((now.day - MinOrdinal) % 7) <= MaxOrdinal
          THEN pc = "done" /\ ListsMondaysOfYear
          ELSE pc = "raised"

\* the 53 Mondays of 2024, read on its last day
C22_Witness ==
    /\ CalledPreviousMondays
    /\ pc = "done"
    /\ now.day = LeapYearEnd
    /\ Len(result) = 53
    /\ result[1].day = LeapYearEnd - 365
    /\ result[53].day = LeapYearEnd - 1

----------------------------------------------------------------------------
(* Reading a run of main.                                                  *)

InMain == fn = "main"

Called == InMain /\ returned # <<>>

TheCall == returned[1]

SavedParams == last_params_file[1]

PromptPcs ==
    {"menu", "date_choice", "monday_selection", "principal", "rate",
     "periods", "cap", "weeks", "vault", "growth_pct", "harvest_pct"}

\* the saved record holds the simulator, the arguments of the call and the
\* start date of this run
SavedIsThisRun ==
    /\ last_params_file # <<>>
    /\ Len(last_params_file) = 1
    /\ SavedParams.simulation_type = simulation_type
    /\ (TheCall.fn = "harvest") = (SavedParams.simulation_type = "baseline")
    /\ (TheCall.fn = "exp") = (SavedParams.simulation_type = "exponential")
    /\ SavedParams.initial_pot = TheCall.args[1]
    /\ SavedParams.weekly_return_rate = TheCall.args[2]
    /\ SavedParams.start_date
          = <<YearOf(start_date.day), MonthOf(start_date.day),
              DayOf(start_date.day)>>
    /\ start_date.second = 0
    /\ IF TheCall.fn = "harvest"
         THEN /\ DOMAIN SavedParams
                    = {"simulation_type", "initial_pot", "weekly_return_rate",
                       "total_weeks", "start_date", "engine_cap",
                       "initial_vault", "growth_vault_pct",
                       "harvest_vault_pct"}
              /\ SavedParams.engine_cap = TheCall.args[3]
              /\ SavedParams.total_weeks = TheCall.args[4]
              /\ SavedParams.initial_vault = TheCall.args[5]
              /\ SavedParams.growth_vault_pct = TheCall.args[6]
              /\ SavedParams.harvest_vault_pct = TheCall.args[7]
         ELSE /\ DOMAIN SavedParams
                    = {"simulation_type", "initial_pot", "weekly_return_rate",
                       "total_weeks", "start_date"}
              /\ SavedParams.total_weeks = TheCall.args[3]

\* C21: a run that completes leaves the saved record equal to its parameter
\* set X; the record changes at no other moment; a run that chooses option
\* 3 reads no further entry, calls the simulator named in the record with
\* exactly the saved arguments and start date, does not fail, and leaves the
\* record as it was.
C21_RedoRoundTrip ==
    /\ []((InMain /\ pc = "done") => (Called /\ SavedIsThisRun))
    /\ []((InMain /\ skip_input) =>
            /\ pc \in {"simulate", "report", "save", "done"}
            /\ entry = "3"
            /\ Called => SavedIsThisRun)
    /\ [][ /\ last_params_file' # last_params_file
              => (InMain /\ pc = "save" /\ pc' = "done" /\ ~skip_input)
           /\ (InMain /\ skip_input /\ pc = "save") => pc' = "done" ]_vars

\* a re-do, on 2026-01-10, of a baseline run saved on 2026-01-01 with the
\* principal -5 and the start date 2026-01-01
C21_Witness ==
    /\ InMain
    /\ skip_input
    /\ pc = "done"
    /\ now.day = TestMonday + 5
    /\ start_date = DateTime(NewYear2026, 0)
    /\ SavedParams.start_date = <<2026, 1, 1>>
    /\ TheCall.fn = "harvest"
    /\ TheCall.args = <<Rat(-5, 1), Rat(1, 4), Rat(10000, 1), 2,
                        Rat(-1, 1), Rat(100, 1), Zero>>
    /\ SavedParams.growth_vault_pct = Rat(100, 1)

----------------------------------------------------------------------------
\* C24: in every run of main, interactive or re-do, the percentages passed
\* to simulate_baseline_harvest_engine are within [0, 100].
C24_PercentagesInRange ==
    InMain =>
        \A i \in DOMAIN returned :
            returned[i].fn = "harvest" =>
                /\ Le(Zero, returned[i].args[6])
                /\ Le(returned[i].args[6], Rat(100, 1))
                /\ Le(Zero, returned[i].args[7])
                /\ Le(returned[i].args[7], Rat(100, 1))

\* a re-do run calls the engine with the bounds 100 and 0, typed in an
\* earlier run after 150 had been refused
C24_Witness ==
    /\ Called
    /\ skip_input
    /\ TheCall.fn = "harvest"
    /\ TheCall.args[6] = Rat(100, 1)
    /\ TheCall.args[7] = Zero

----------------------------------------------------------------------------
\* C25 (as claimed): every call main makes to
\* simulate_baseline_harvest_engine has initial_pot >= 0, engine_cap > 0,
\* total_weeks >= 0 and initial_vault >= 0.
C25_ValidatedCall ==
    InMain =>
        \A i \in DOMAIN returned :
            returned[i].fn = "harvest" =>
                /\ Le(Zero, returned[i].args[1])
                /\ Gt(returned[i].args[3], Zero)
                /\ returned[i].args[4] >= 0
                /\ Le(Zero, returned[i].args[5])

----------------------------------------------------------------------------
\* the entries that the prompt at position p cannot use
Refused(p) ==
    CASE p = "menu" -> {"5", "abc"}
      [] p = "date_choice" -> {"3"}
      [] p = "monday_selection" -> {"2", "n", "abc"}
      [] p \in {"periods", "weeks"} -> {"2.5", "abc"}
      [] OTHER -> {"abc"}

\* C26: an entry that the menu or a prompt cannot use leaves every
\* parameter collected so far as it was and the program at the same prompt;
\* when an interactive run calls a simulator, every argument is a value
\* typed at its prompt or the default of that prompt.
C26_RejectAndReprompt ==
    /\ [][ (InMain /\ pc \in PromptPcs /\ entry' \in Refused(pc))
              => /\ pc' = pc
                 /\ UNCHANGED <<harvestArgs, simulation_type, start_date,
                                skip_input, returned, history, txt_file,
                                last_params_file>> ]_vars
    /\ []((Called /\ ~skip_input) =>
            /\ TheCall.args[1] \in {Rat(1000, 1), Rat(-5, 1)}
            /\ IF TheCall.fn = "exp"
                 THEN /\ TheCall.args[2] \in {Rat(1, 4), One}
                      /\ TheCall.args[3] \in {52, -1, 1024}
                 ELSE /\ TheCall.args[2] = Rat(1, 4)
                      /\ TheCall.args[3] \in {Rat(10000, 1), Zero}
                      /\ TheCall.args[4] \in {52, 0, 2}
                      /\ TheCall.args[5] \in {Rat(300, 1), Rat(-1, 1)}
                      /\ TheCall.args[6] \in {Rat(50, 1), Rat(100, 1)}
                      /\ TheCall.args[7] \in {Rat(25, 1), Zero})

\* "2.5" has just been refused at the weeks prompt; principal and cap are
\* still the ones typed before
C26_Witness ==
    /\ InMain
    /\ pc = "weeks"
    /\ entry = "2.5"
    /\ initial_pot = Rat(-5, 1)
    /\ engine_cap = Zero
    /\ total_weeks = 0
    /\ returned = <<>>

----------------------------------------------------------------------------
\* C29 (as claimed): a baseline run of main, with total_weeks = 0 as with
\* total_weeks >= 1, does not fail: after the engine has returned, main
\* goes on to write simulation.txt and to save the parameter record.
C29_ReportNeverFails ==
    (InMain /\ simulation_type = "baseline")
        => /\ pc \notin {"IndexError", "OverflowError"}
           /\ pc = "done" => (txt_file = "written" /\ SavedIsThisRun)

\* what holds: a baseline run fails with IndexError exactly when the engine
\* returned an empty history, i.e. when total_weeks <= 0
C29_FailsOnEmptyHistory ==
    (InMain /\ simulation_type = "baseline" /\ Called) =>
        /\ pc = "IndexError" => (total_weeks <= 0 /\ txt_file = "absent")
        /\ (total_weeks <= 0) => pc \in {"report", "IndexError"}
        /\ pc = "done" => (total_weeks >= 1 /\ txt_file = "written")

====
